---- MODULE Spec2Model ----
(***************************************************************************)
(* Model of ch_filing: the counter store (state.py), the envelope builder  *)
(* (envelope.py), the message bodies and the client's response classifier  *)
(* (client.py).                                                            *)
(***************************************************************************)
EXTENDS Integers, Sequences, FiniteSets, TLC

VARIABLES
    file,     \* contents of the state file on disk (State.state_file)
    mem,      \* State.state, the in-memory counters of the live instance
    pc,       \* position of the caller inside a store call
    call,     \* the store call in progress: "none", "tx" or "sub"
    job,      \* the operation that made the store call
    entry,    \* the counters as they were when the call in progress began
    boot,     \* what the constructor of the live instance found and loaded
    ret,      \* outcome of the last completed operation, as the caller saw it
    log,      \* history of next_* outcomes and restarts on this state-file path
    config,   \* State.config, the configuration mapping loaded at construction
    content,  \* the message body built last
    env,      \* the envelope built last
    exch,     \* what the HTTP layer did with the last POST
    outcome,  \* how the last Client.call ended
    posts,    \* number of HTTP POSTs issued
    calls,    \* number of Client.call invocations made
    got,      \* the last two State.get lookups, latest first
    peer,     \* a second State instance: its fields, its history, its file
    thr,      \* the threads that share the live instance, each one's position
    srv       \* the mock gateway: its settings, its data, the last POST it handled

storeVars == <<file, mem, pc, call, job, entry, boot, ret, log>>

buildVars == <<content, env>>

clientVars == <<exch, outcome, posts, calls>>

\* What only some of the runs below use.
auxVars == <<got, peer, thr, srv>>

\* Everything outside the counter store.
restVars == <<config, content, env, exch, outcome, posts, calls, auxVars>>

\* ---------------------------------------------------------------- bounds

\* Longest history explored (next_* outcomes plus restarts).
MaxLog == 4

\* ------------------------------------------------------------ text model

DigitChars == <<"0", "1", "2", "3", "4", "5", "6", "7", "8", "9">>

DigitChar(d) == DigitChars[d + 1]

\* Value of one decimal digit character.
DigitVal(c) == CHOOSE d \in 0..9 : DigitChars[d + 1] = c

IsDigit(c) == \E d \in 0..9 : DigitChars[d + 1] = c

\* Decimal text of a non-negative integer: what "%d" and json.dumps write.
RECURSIVE IntToStr(_)
IntToStr(n) ==
    IF n < 10 THEN <<DigitChar(n)>>
    ELSE IntToStr(n \div 10) \o <<DigitChar(n % 10)>>

\* int() / json.loads of decimal text.
RECURSIVE ParseInt(_)
ParseInt(s) ==
    IF Len(s) = 0 THEN 0
    ELSE 10 * ParseInt(SubSeq(s, 1, Len(s) - 1)) + DigitVal(s[Len(s)])

RECURSIVE Zeros(_)
Zeros(k) == IF k <= 0 THEN <<>> ELSE <<"0">> \o Zeros(k - 1)

\* Minimum field width of the "%05d" conversion.
SubIdWidth == 5

\* "%05d" % n for n >= 0: zero-padded on the left to at least SubIdWidth.
ZeroPad(n) == Zeros(SubIdWidth - Len(IntToStr(n))) \o IntToStr(n)

\* Mutant: "S%d", the number without zero padding.
FormatSubIdNoPad(n) == <<"S">> \o IntToStr(n)

\* "S%05d" % n
FormatSubId(n) == <<"S">> \o ZeroPad(n)

\* ------------------------------------------------------ state file model

NoText == <<>>

FileAbsent == [kind |-> "absent", tx |-> NoText, sub |-> NoText]

\* Zero bytes: what open(state_file, "w") leaves before anything is written.
FileEmpty == [kind |-> "empty", tx |-> NoText, sub |-> NoText]

\* Text that json.loads rejects.
FileGarbage == [kind |-> "garbage", tx |-> NoText, sub |-> NoText]

\* Valid JSON holding neither counter, such as {} or [].
FileOther == [kind |-> "other", tx |-> NoText, sub |-> NoText]

\* {"transaction-id": <tx>, "submission-id": <sub>} as decimal text.
FileCounters(txs, subs) == [kind |-> "counters", tx |-> txs, sub |-> subs]

\* Mutant: counters that start at 1.
DefaultStateOne == [shape |-> "counters", tx |-> 1, sub |-> 1]

\* The counters load_state falls back to, lines 15-18.
DefaultState == [shape |-> "counters", tx |-> 0, sub |-> 0]

OtherState == [shape |-> "other", tx |-> 0, sub |-> 0]

\* Mutant: a loader that ignores what the file holds.
LoadStateIgnoringFile(f) == DefaultState

\* State.load_state: json.loads(open(state_file).read()), defaults on any error.
LoadState(f) ==
    CASE f.kind = "counters" ->
            [shape |-> "counters", tx |-> ParseInt(f.tx), sub |-> ParseInt(f.sub)]
      [] f.kind = "other" -> OtherState
      [] OTHER -> DefaultState

\* json.dumps(self.state)
Dumps(m) ==
    IF m.shape = "counters"
    THEN FileCounters(IntToStr(m.tx), IntToStr(m.sub))
    ELSE FileOther

\* Counter pairs found in state files left by earlier runs.
InitCounters == {<<5, 9>>, <<41, 99998>>}

InitFiles ==
    {FileAbsent, FileGarbage, FileOther}
        \cup {FileCounters(IntToStr(c[1]), IntToStr(c[2])) : c \in InitCounters}

\* ------------------------------------------------------------- outcomes

NoRet == [op |-> "none", ok |-> TRUE, num |-> 0, str |-> NoText]

Returned(op, n, s) == [op |-> op, ok |-> TRUE, num |-> n, str |-> s]

Raised(op) == [op |-> op, ok |-> FALSE, num |-> 0, str |-> NoText]

\* A history entry: for a returned next_* call the counter value returned (v)
\* and the counter as it was when the call began (c); for an envelope the
\* transaction id stamped in it (v); for a restart the counters the new
\* instance loaded.
Event(e, v, c) == [e |-> e, v |-> v, c |-> c]

\* The operation a store call is made for, and the message class it carries.
Job(op, cls) == [op |-> op, cls |-> cls]

NoJob == Job("none", "")

ApiJob == Job("api", "")

\* What State.__init__ found in the state file and what load_state made of it.
Booted(f) == [kind |-> f.kind, tx |-> LoadState(f).tx, sub |-> LoadState(f).sub]

\* Mutant: the increment of one counter advances the other as well.
IncTxAndSub(m) == [m EXCEPT !.tx = @ + 1, !.sub = @ + 1]

\* self.state["transaction-id"] += 1
IncTx(m) == [m EXCEPT !.tx = @ + 1]

\* self.state["submission-id"] += 1
IncSub(m) == [m EXCEPT !.sub = @ + 1]

\* -------------------------------------------------- configuration reads

\* Keys a caller looks up: two the configurations hold, one some of them
\* lack, one none of them holds.
LookupKeys == {"url", "email", "presenter-id", "no-such-key"}

\* One State.get lookup: the key asked for and the value returned.
Lookup(key, val) == [key |-> key, val |-> val]

GotInit == got = <<>>

\* A second State instance. path tells whether its state_file is the path of
\* the first instance ("same") or another one ("own", contents in file).
Peer(path, f, m) ==
    [path |-> path, file |-> f, mem |-> m, boot |-> m, pc |-> "idle",
     call |-> "none", entry |-> m, log |-> <<>>]

\* No second instance is in use.
NoPeer == Peer("own", FileAbsent, [shape |-> "counters", tx |-> 0, sub |-> 0])

\* The two counters, by the kind of call that advances them.
PerKind(tx, sub) == [tx |-> tx, sub |-> sub]

\* A thread between calls.
IdleThread == [pc |-> "idle", call |-> "none", reg |-> 0, text |-> FileEmpty]

\* The threads that share one State instance: each one's position, the calls
\* begun and the calls returned per kind, and whether the read-add-store of
\* one call began inside that of another call of the same kind.
Threads(ids) ==
    [t |-> [i \in ids |-> IdleThread], begun |-> PerKind(0, 0),
     done |-> PerKind(0, 0), raced |-> PerKind(FALSE, FALSE)]

\* No thread but the caller's uses the instance.
NoThreads == Threads({})

\* What the mock gateway remembers of a POST: who sent it, the request, the
\* status and body it answered, the handler it routed to, and
\* TestData.submissions before and after.
Handled(via, req, status, body, handler, before, after) ==
    [via |-> via, req |-> req, status |-> status, body |-> body,
     handler |-> handler, before |-> before, after |-> after]

NoRequest == [path |-> "", xml |-> FALSE, hasAuth |-> FALSE, env |-> <<>>]

NoHandled == Handled("none", NoRequest, 0, <<>>, "none", <<>>, <<>>)

\* TestServer.__init__, lines 11-24: the settings, and TestData() with no
\* submission stored.
TestServer(presenter_id, authentication, company_auth_code, fail_auth) ==
    [presenter_id |-> presenter_id, authentication |-> authentication,
     company_auth_code |-> company_auth_code, fail_auth |-> fail_auth,
     submissions |-> <<>>, count |-> 0, last |-> NoHandled]

\* No mock gateway is running.
NoServer == TestServer("", "", "", FALSE)

AuxInit ==
    /\ GotInit
    /\ peer = NoPeer
    /\ thr = NoThreads
    /\ srv = NoServer

\* ---------------------------------------------------------- store steps

\* State.__init__ on the state-file path: the state right after construction.
StoreInitOn(files) ==
    /\ file \in files
    /\ mem = LoadState(file)
    /\ pc = "idle"
    /\ call = "none"
    /\ job = NoJob
    /\ entry = mem
    /\ boot = Booted(file)
    /\ ret = NoRet
    /\ log = <<>>

\* State.get_next_tx_id, line 23: the increment, or KeyError/TypeError when the
\* loaded state holds no transaction-id.
BeginNextTx(j) ==
    IF mem.shape = "counters"
    THEN /\ mem' = IncTx(mem)
         /\ pc' = "write"
         /\ call' = "tx"
         /\ job' = j
         /\ entry' = mem
         /\ UNCHANGED <<file, boot, ret, log>>
    ELSE /\ ret' = Raised("next_tx")
         /\ log' = Append(log, Event("raise_tx", 0, 0))
         /\ UNCHANGED <<file, mem, pc, call, job, entry, boot>>

\* State.get_next_submission_id, line 29.
BeginNextSub(j) ==
    IF mem.shape = "counters"
    THEN /\ mem' = IncSub(mem)
         /\ pc' = "write"
         /\ call' = "sub"
         /\ job' = j
         /\ entry' = mem
         /\ UNCHANGED <<file, boot, ret, log>>
    ELSE /\ ret' = Raised("next_sub")
         /\ log' = Append(log, Event("raise_sub", 0, 0))
         /\ UNCHANGED <<file, mem, pc, call, job, entry, boot>>

\* A direct call of State.get_next_tx_id.
CallNextTx ==
    /\ pc = "idle"
    /\ Len(log) < MaxLog
    /\ BeginNextTx(ApiJob)
    /\ UNCHANGED restVars

\* A direct call of State.get_next_submission_id.
CallNextSub ==
    /\ pc = "idle"
    /\ Len(log) < MaxLog
    /\ BeginNextSub(ApiJob)
    /\ UNCHANGED restVars

\* The exception leaves the call: the caller sees it, nothing is undone.
RaiseFromWrite ==
    /\ pc' = "idle"
    /\ call' = "none"
    /\ job' = NoJob
    /\ ret' = Raised(IF call = "tx" THEN "next_tx" ELSE "next_sub")
    /\ log' = Append(log, IF call = "tx"
                           THEN Event("raise_tx", 0, entry.tx)
                           ELSE Event("raise_sub", 0, entry.sub))
    /\ entry' = mem
    /\ UNCHANGED <<mem, boot>>

\* State.write, line 20: open(state_file, "w") truncates the file, or raises
\* OSError (missing directory, no permission) and leaves it alone.
WriteOpen ==
    /\ pc = "write"
    /\ \/ /\ file' = FileEmpty
          /\ pc' = "opened"
          /\ UNCHANGED <<mem, call, job, entry, boot, ret, log>>
       \/ /\ UNCHANGED file
          /\ RaiseFromWrite
    /\ UNCHANGED restVars

\* Mutant: the call goes on without the text having reached the file.
WriteFlushBuffered ==
    /\ pc = "opened"
    /\ pc' = "flushed"
    /\ UNCHANGED <<file, mem, call, job, entry, boot, ret, log>>
    /\ UNCHANGED restVars

\* State.write, line 21 and the close of the with block: the text reaches the
\* file, or the flush raises OSError and the file stays truncated.
WriteFlush ==
    /\ pc = "opened"
    /\ \/ /\ file' = Dumps(mem)
          /\ pc' = "flushed"
          /\ UNCHANGED <<mem, call, job, entry, boot, ret, log>>
       \/ /\ UNCHANGED file
          /\ RaiseFromWrite
    /\ UNCHANGED restVars

\* Mutant: returns the counter as it was before the increment.
TxReturnValueStale(m) == m.tx - 1

\* State.get_next_tx_id, line 25.
TxReturnValue(m) == m.tx

\* State.get_next_submission_id, line 31.
SubReturnValue(m) == FormatSubId(m.sub)

\* The return statement of a direct get_next_* call.
ReturnNext ==
    /\ pc = "flushed"
    /\ job = ApiJob
    /\ pc' = "idle"
    /\ call' = "none"
    /\ job' = NoJob
    /\ IF call = "tx"
       THEN /\ ret' = Returned("next_tx", TxReturnValue(mem), NoText)
            /\ log' = Append(log, Event("tx", TxReturnValue(mem), entry.tx))
       ELSE /\ ret' = Returned("next_sub", mem.sub, SubReturnValue(mem))
            /\ log' = Append(log, Event("sub", mem.sub, entry.sub))
    /\ entry' = mem
    /\ UNCHANGED <<file, mem, boot>>
    /\ UNCHANGED restVars

\* State.get_cur_tx_id
GetCurTxId ==
    /\ pc = "idle"
    /\ ret' = IF mem.shape = "counters"
              THEN Returned("cur_tx", mem.tx, NoText)
              ELSE Raised("cur_tx")
    /\ UNCHANGED <<file, mem, pc, call, job, entry, boot, log>>
    /\ UNCHANGED restVars

\* State.get_cur_submission_id
GetCurSubmissionId ==
    /\ pc = "idle"
    /\ ret' = IF mem.shape = "counters"
              THEN Returned("cur_sub", mem.sub, NoText)
              ELSE Raised("cur_sub")
    /\ UNCHANGED <<file, mem, pc, call, job, entry, boot, log>>
    /\ UNCHANGED restVars

\* The process ends (cleanly when idle, killed otherwise) and a new State is
\* constructed on the same state-file path. The event records whether the
\* old process was idle.
Restart ==
    /\ Len(log) < MaxLog
    /\ mem' = LoadState(file)
    /\ pc' = "idle"
    /\ call' = "none"
    /\ job' = NoJob
    /\ entry' = LoadState(file)
    /\ boot' = Booted(file)
    /\ ret' = NoRet
    /\ log' = Append(log, Event(IF pc = "idle" THEN "restart" ELSE "crash",
                                 LoadState(file).tx, LoadState(file).sub))
    /\ UNCHANGED file
    /\ UNCHANGED restVars

\* ------------------------------------------------- a second instance

\* Most get_next_* calls made on the two instances together.
MaxCalls == 4

\* Calls begun on the two instances so far.
CallsBegun ==
    Len(log) + Len(peer.log)
        + (IF pc = "idle" THEN 0 ELSE 1) + (IF peer.pc = "idle" THEN 0 ELSE 1)

\* Everything a step of the second instance leaves alone, its file aside.
peerFrame ==
    <<mem, pc, call, job, entry, boot, ret, log, config, content, env,
      exch, outcome, posts, calls, got, thr, srv>>

\* The contents of the second instance's state file.
PeerFile == IF peer.path = "same" THEN file ELSE peer.file

\* Mutant: the second instance writes to the path of the first, whatever
\* path it was constructed with.
PeerStepOnFirstPath(p, f) == peer' = p /\ file' = f

\* The second instance moves to p and its state file comes to hold f.
PeerStep(p, f) ==
    IF peer.path = "same"
    THEN peer' = p /\ file' = f
    ELSE peer' = [p EXCEPT !.file = f] /\ file' = file

\* get_next_tx_id / get_next_submission_id on the second instance, lines 23
\* and 29: the increment.
PeerCallNext(kind) ==
    /\ peer.pc = "idle"
    /\ CallsBegun < MaxCalls
    /\ PeerStep([peer EXCEPT !.mem = IF kind = "tx" THEN IncTx(@) ELSE IncSub(@),
                             !.pc = "write",
                             !.call = kind,
                             !.entry = peer.mem],
                PeerFile)
    /\ UNCHANGED peerFrame

PeerCallNextTx == PeerCallNext("tx")

PeerCallNextSub == PeerCallNext("sub")

\* The second instance's call ends in the exception write() raised.
PeerRaised ==
    [peer EXCEPT !.pc = "idle", !.call = "none", !.entry = peer.mem,
                 !.log = Append(@, IF peer.call = "tx"
                                   THEN Event("raise_tx", 0, peer.entry.tx)
                                   ELSE Event("raise_sub", 0, peer.entry.sub))]

\* State.write on the second instance, line 20: truncate, or OSError.
PeerWriteOpen ==
    /\ peer.pc = "write"
    /\ \/ PeerStep([peer EXCEPT !.pc = "opened"], FileEmpty)
       \/ PeerStep(PeerRaised, PeerFile)
    /\ UNCHANGED peerFrame

\* State.write on the second instance, line 21: the text, or OSError.
PeerWriteFlush ==
    /\ peer.pc = "opened"
    /\ \/ PeerStep([peer EXCEPT !.pc = "flushed"], Dumps(peer.mem))
       \/ PeerStep(PeerRaised, PeerFile)
    /\ UNCHANGED peerFrame

\* The return statement of the second instance's call, lines 25 and 31.
PeerReturnNext ==
    /\ peer.pc = "flushed"
    /\ PeerStep([peer EXCEPT !.pc = "idle", !.call = "none", !.entry = peer.mem,
                             !.log = Append(@, IF peer.call = "tx"
                                               THEN Event("tx", TxReturnValue(peer.mem),
                                                          peer.entry.tx)
                                               ELSE Event("sub", peer.mem.sub,
                                                          peer.entry.sub))],
                PeerFile)
    /\ UNCHANGED peerFrame

\* A call on the first instance while the second one is in use.
FirstCallNextTx ==
    /\ CallsBegun < MaxCalls
    /\ CallNextTx

FirstCallNextSub ==
    /\ CallsBegun < MaxCalls
    /\ CallNextSub

\* The mutex for the state-file path is free: no get_next_* call is in
\* progress on either instance.
LockFree == pc = "idle" /\ peer.pc = "idle"

\* get_next_* calls made with the mutex held from entry to return or raise.
LockedCallNextTx == LockFree /\ FirstCallNextTx

LockedCallNextSub == LockFree /\ FirstCallNextSub

LockedPeerCallNextTx == LockFree /\ PeerCallNextTx

LockedPeerCallNextSub == LockFree /\ PeerCallNextSub

\* ------------------------------------------- threads on one instance

\* The threads that call the shared instance.
ThreadIds == {1, 2}

\* Most get_next_* calls the threads make together.
MaxThreadCalls == 3

\* Everything a step of a thread leaves alone, the shared counters and the
\* state file aside.
threadFrame ==
    <<pc, call, job, entry, boot, ret, log, config, content, env,
      exch, outcome, posts, calls, got, peer, srv>>

\* The counter a call of the given kind advances.
CounterOf(m, kind) == IF kind = "tx" THEN m.tx ELSE m.sub

WithCounter(m, kind, n) ==
    IF kind = "tx" THEN [m EXCEPT !.tx = n] ELSE [m EXCEPT !.sub = n]

\* Length of the text json.dumps gives for a counters file, up to a constant.
TextLen(f) == Len(f.tx) + Len(f.sub)

\* What the file holds after text new is written at offset 0 of a file
\* holding old: a shorter text leaves the tail of a longer one behind it.
Overlay(old, new) ==
    IF old.kind # "counters" \/ TextLen(new) >= TextLen(old)
    THEN new
    ELSE FileGarbage

\* self.state[key] += 1, the read: lines 23 and 29.
ThreadLoad(t, kind) ==
    /\ thr.t[t].pc = "idle"
    /\ thr.begun.tx + thr.begun.sub < MaxThreadCalls
    /\ thr' = [thr EXCEPT
                 !.t[t] = [@ EXCEPT !.pc = "loaded", !.call = kind,
                                    !.reg = CounterOf(mem, kind)],
                 !.begun[kind] = @ + 1,
                 !.raced[kind] = @ \/ \E u \in ThreadIds \ {t} :
                                         /\ thr.t[u].pc = "loaded"
                                         /\ thr.t[u].call = kind]
    /\ UNCHANGED <<mem, file>>
    /\ UNCHANGED threadFrame

ThreadLoadTx == \E t \in ThreadIds : ThreadLoad(t, "tx")

ThreadLoadSub == \E t \in ThreadIds : ThreadLoad(t, "sub")

\* Mutant: the value read is stored back as it is.
ThreadStoreUnchanged(t) ==
    /\ thr.t[t].pc = "loaded"
    /\ mem' = WithCounter(mem, thr.t[t].call, thr.t[t].reg)
    /\ thr' = [thr EXCEPT !.t[t].pc = "write"]
    /\ UNCHANGED file
    /\ UNCHANGED threadFrame

\* self.state[key] += 1, the store of the value read plus 1.
ThreadStore(t) ==
    /\ thr.t[t].pc = "loaded"
    /\ mem' = WithCounter(mem, thr.t[t].call, thr.t[t].reg + 1)
    /\ thr' = [thr EXCEPT !.t[t].pc = "write"]
    /\ UNCHANGED file
    /\ UNCHANGED threadFrame

ThreadStoreAny == \E t \in ThreadIds : ThreadStore(t)

\* The thread's call ends in the OSError write() raised.
ThreadRaised(t) == [thr EXCEPT !.t[t] = IdleThread]

\* State.write, line 20: open(state_file, "w") truncates, or raises.
ThreadOpen ==
    \E t \in ThreadIds :
        /\ thr.t[t].pc = "write"
        /\ \/ /\ file' = FileEmpty
              /\ thr' = [thr EXCEPT !.t[t].pc = "opened"]
           \/ /\ file' = file
              /\ thr' = ThreadRaised(t)
        /\ UNCHANGED mem
        /\ UNCHANGED threadFrame

\* State.write, line 21: json.dumps(self.state) of the counters as they are
\* now, handed to the buffered file object.
ThreadDumps ==
    \E t \in ThreadIds :
        /\ thr.t[t].pc = "opened"
        /\ thr' = [thr EXCEPT !.t[t].pc = "dumped", !.t[t].text = Dumps(mem)]
        /\ UNCHANGED <<mem, file>>
        /\ UNCHANGED threadFrame

\* The end of the with block: the buffered text reaches the file at offset
\* 0, or the flush raises.
ThreadClose ==
    \E t \in ThreadIds :
        /\ thr.t[t].pc = "dumped"
        /\ \/ /\ file' = Overlay(file, thr.t[t].text)
              /\ thr' = [thr EXCEPT !.t[t].pc = "closed"]
           \/ /\ file' = file
              /\ thr' = ThreadRaised(t)
        /\ UNCHANGED mem
        /\ UNCHANGED threadFrame

\* The return statement, lines 25 and 31: the counter as it is now.
ThreadReturn ==
    \E t \in ThreadIds :
        /\ thr.t[t].pc = "closed"
        /\ thr' = [thr EXCEPT !.t[t] = IdleThread,
                              !.done[thr.t[t].call] = @ + 1]
        /\ UNCHANGED <<mem, file>>
        /\ UNCHANGED threadFrame

\* ------------------------------------------------------- configuration

\* dict.get of a key the configuration does not hold.
None == "<None>"

CommonConfig ==
    ("email" :> "test@example.com") @@ ("test-flag" :> "1")
        @@ ("url" :> "http://localhost:9303/v1-0/xmlgw/Gateway")
        @@ ("company-number" :> "12345678")
        @@ ("company-authentication-code" :> "CAC123")
        @@ ("made-up-date" :> "2023-12-31")
        @@ ("company-type" :> "EW")
        @@ ("company-name" :> "TEST COMPANY LIMITED")
        @@ ("package-reference" :> "0012")
        @@ ("contact-name" :> "Test Person")
        @@ ("contact-number" :> "07900 123456")
        @@ ("date-signed" :> "2024-01-15")
        @@ ("date" :> "2024-01-15")

ConfigA ==
    ("presenter-id" :> "PRESENTER_A") @@ ("authentication" :> "AUTH_A")
        @@ CommonConfig

ConfigB ==
    ("presenter-id" :> "PRESENTER_B") @@ ("authentication" :> "AUTH_B")
        @@ CommonConfig

\* A configuration without presenter-id.
ConfigNoPresenter == ("authentication" :> "AUTH_A") @@ CommonConfig

\* A configuration without authentication.
ConfigNoAuth == ("presenter-id" :> "PRESENTER_A") @@ CommonConfig

\* A configuration whose email address is the presenter id itself.
ConfigEmailIsPresenter ==
    ("email" :> "PRESENTER_A") @@ ConfigA

Configs ==
    {ConfigA, ConfigB, ConfigNoPresenter, ConfigNoAuth, ConfigEmailIsPresenter}

\* Mutant: a subscript lookup, which has no value for an unknown key.
GetSubscript(cfg, key) == IF key \in DOMAIN cfg THEN cfg[key] ELSE "<KeyError>"

\* State.get
Get(cfg, key) == IF key \in DOMAIN cfg THEN cfg[key] ELSE None

\* A call of State.get(key) between store operations.
GetKey ==
    /\ pc = "idle"
    /\ \E key \in LookupKeys :
          got' = <<Lookup(key, Get(config, key))>>
                     \o (IF Len(got) = 0 THEN <<>> ELSE <<got[1]>>)
    /\ UNCHANGED storeVars
    /\ UNCHANGED <<config, content, env>>
    /\ UNCHANGED clientVars
    /\ UNCHANGED <<peer, thr, srv>>

\* hashlib.md5(s.encode("utf-8")).hexdigest() of the secrets configured here.
Md5Table ==
    ("PRESENTER_A" :> "48e1d062e02d27ec0ef8344d96b02608")
        @@ ("AUTH_A" :> "efb3d8d53fe04634b0cc1f93b5b32f57")
        @@ ("PRESENTER_B" :> "2d6d93664c8033bba0a951cc04a17a75")
        @@ ("AUTH_B" :> "38862c2c685f842493f39d60e82de732")

Md5(s) == Md5Table[s]

\* base64.b64encode(data.encode("utf-8")).decode("utf-8") of the documents
\* filed here.
Base64Table == "<html/>" :> "PGh0bWwvPg=="

Base64(s) == Base64Table[s]

\* A character sequence as one text.
RECURSIVE Join(_)
Join(cs) == IF Len(cs) = 0 THEN "" ELSE cs[1] \o Join(Tail(cs))

\* ------------------------------------------------------- message bodies

Content(tag, fields) == [tag |-> tag, fields |-> fields]

NoContent == Content("none", <<>>)

\* CompanyData.create_request
CompanyDataRequest(cfg) ==
    Content("CompanyDataRequest",
        ("CompanyNumber" :> Get(cfg, "company-number"))
            @@ ("CompanyAuthenticationCode"
                    :> Get(cfg, "company-authentication-code"))
            @@ ("MadeUpDate" :> Get(cfg, "made-up-date"))
            @@ ("schemaLocation" :> "http://xmlgw.companieshouse.gov.uk http://xmlgw.companieshouse.gov.uk/v2-1/schema/CompanyData-v3-3.xsd"))

\* SubmissionStatus.create_request: the SubmissionNumber element only for a
\* sub_id that is neither None nor empty.
GetSubmissionStatus(cfg, sub_id) ==
    Content("GetSubmissionStatus",
        (IF sub_id \notin {None, ""}
         THEN "SubmissionNumber" :> sub_id
         ELSE <<>>)
            @@ ("PresenterID" :> Get(cfg, "presenter-id"))
            @@ ("schemaLocation" :> "http://xmlgw.companieshouse.gov.uk http://xmlgw.companieshouse.gov.uk/v2-1/schema/forms/GetSubmissionStatus-v2-5.xsd"))

\* Accounts.create_submission, given the submission id the store returned.
FormSubmission(cfg, fname, data, subId) ==
    Content("FormSubmission",
        ("CompanyNumber" :> Get(cfg, "company-number"))
            @@ ("CompanyType" :> Get(cfg, "company-type"))
            @@ ("CompanyName" :> Get(cfg, "company-name"))
            @@ ("CompanyAuthenticationCode"
                    :> Get(cfg, "company-authentication-code"))
            @@ ("PackageReference" :> Get(cfg, "package-reference"))
            @@ ("Language" :> "EN")
            @@ ("FormIdentifier" :> "Accounts")
            @@ ("SubmissionNumber" :> Join(subId))
            @@ ("ContactName" :> Get(cfg, "contact-name"))
            @@ ("ContactNumber" :> Get(cfg, "contact-number"))
            @@ ("DateSigned" :> Get(cfg, "date-signed"))
            @@ ("Data" :> Base64(data))
            @@ ("Date" :> Get(cfg, "date"))
            @@ ("Filename" :> fname)
            @@ ("ContentType" :> "application/xml")
            @@ ("Category" :> "ACCOUNTS")
            @@ ("schemaLocation" :> "http://xmlgw.companieshouse.gov.uk/Header http://xmlgw.companieshouse.gov.uk/v1-1/schema/forms/FormSubmission-v2-11.xsd"))

\* ------------------------------------------------------------ envelope

\* The GovTalkMessage tree, element by element.
EnvelopeTree(cfg, body, cls, qualifier, txText, sender, value) ==
    [EnvelopeVersion |-> "1.0",
     Class |-> cls,
     Qualifier |-> qualifier,
     TransactionID |-> txText,
     GatewayTest |-> Get(cfg, "test-flag"),
     SenderID |-> sender,
     Method |-> "clear",
     Value |-> value,
     EmailAddress |-> Get(cfg, "email"),
     schemaLocation |-> "http://www.govtalk.gov.uk/CM/envelope http://xmlgw.companieshouse.gov.uk/v2-1/schema/Egov_ch-v2-0.xsd",
     Body |-> body]

NoEnvelope ==
    [EnvelopeVersion |-> "", Class |-> "", Qualifier |-> "",
     TransactionID |-> NoText, GatewayTest |-> "", SenderID |-> "",
     Method |-> "", Value |-> "", EmailAddress |-> "", schemaLocation |-> "",
     Body |-> NoContent]

\* Mutant: stamps the counter as it was before the allocation.
EnvelopeOfStaleId(cfg, body, cls, qualifier, txid) ==
    EnvelopeTree(cfg, body, cls, qualifier, IntToStr(txid - 1),
                 Md5(Get(cfg, "presenter-id")), Md5(Get(cfg, "authentication")))

\* Mutant: sends the authentication token itself instead of its digest.
EnvelopeOfClearValue(cfg, body, cls, qualifier, txid) ==
    EnvelopeTree(cfg, body, cls, qualifier, IntToStr(txid),
                 Md5(Get(cfg, "presenter-id")), Get(cfg, "authentication"))

\* Envelope.create, lines 23-55, given the transaction id the store returned.
EnvelopeOf(cfg, body, cls, qualifier, txid) ==
    EnvelopeTree(cfg, body, cls, qualifier, IntToStr(txid),
                 Md5(Get(cfg, "presenter-id")), Md5(Get(cfg, "authentication")))

\* Every text of the serialized envelope: element texts and attribute values
\* of the header and of the body.
Texts(e) ==
    {e.EnvelopeVersion, e.Class, e.Qualifier, Join(e.TransactionID),
     e.GatewayTest, e.SenderID, e.Method, e.Value, e.EmailAddress,
     e.schemaLocation}
        \cup {e.Body.fields[f] : f \in DOMAIN e.Body.fields}

\* The texts of the envelope's header alone.
HeaderTexts(e) == Texts([e EXCEPT !.Body = NoContent])

\* ------------------------------------------------- building a request

\* Submission ids a caller asks the status of (None: all submissions).
SubIdArgs == {None, "S00001"}

\* The message classes __main__ passes for each body.
ClassesFor(tag) ==
    CASE tag = "CompanyDataRequest" -> {"CompanyDataRequest"}
      [] tag = "GetSubmissionStatus" -> {"GetSubmissionStatus"}
      [] tag = "FormSubmission" -> {"Accounts", "AccountsImage"}
      [] OTHER -> {}

\* CompanyData.create_request(st)
CreateCompanyData ==
    /\ pc = "idle"
    /\ content' = CompanyDataRequest(config)
    /\ ret' = Returned("company_data", 0, NoText)
    /\ UNCHANGED <<file, mem, pc, call, job, entry, boot, log>>
    /\ UNCHANGED <<config, env>>
    /\ UNCHANGED clientVars
    /\ UNCHANGED auxVars

\* SubmissionStatus.create_request(st, sub_id)
CreateStatusRequest ==
    /\ pc = "idle"
    /\ \E sub_id \in SubIdArgs : content' = GetSubmissionStatus(config, sub_id)
    /\ ret' = Returned("status_request", 0, NoText)
    /\ UNCHANGED <<file, mem, pc, call, job, entry, boot, log>>
    /\ UNCHANGED <<config, env>>
    /\ UNCHANGED clientVars
    /\ UNCHANGED auxVars

\* Accounts.create_submission(st, fname, data) up to its call of
\* st.get_next_submission_id().
CreateSubmission ==
    /\ pc = "idle"
    /\ Len(log) < MaxLog
    /\ BeginNextSub(Job("accounts", ""))
    /\ UNCHANGED restVars

\* Accounts.create_submission after the store returned the submission id.
ReturnToAccounts ==
    /\ pc = "flushed"
    /\ job.op = "accounts"
    /\ pc' = "idle"
    /\ call' = "none"
    /\ job' = NoJob
    /\ content' = FormSubmission(config, "accounts.html", "<html/>",
                                 SubReturnValue(mem))
    /\ ret' = Returned("accounts", mem.sub, SubReturnValue(mem))
    /\ log' = Append(log, Event("sub", mem.sub, entry.sub))
    /\ entry' = mem
    /\ UNCHANGED <<file, mem, boot>>
    /\ UNCHANGED <<config, env>>
    /\ UNCHANGED clientVars
    /\ UNCHANGED auxVars

\* Mutant: the transaction id is taken before the secrets are hashed, so a
\* build that raises has advanced the counter.
EnvelopeCreateIdFirst ==
    /\ pc = "idle"
    /\ content # NoContent
    /\ Len(log) < MaxLog
    /\ \E cls \in ClassesFor(content.tag) :
          IF None \in {Get(config, "presenter-id"), Get(config, "authentication")}
          THEN /\ mem' = IncTx(mem)
               /\ ret' = Raised("envelope")
               /\ log' = Append(log, Event("raise_env", 0, mem.tx))
               /\ UNCHANGED <<file, pc, call, job, entry, boot>>
          ELSE BeginNextTx(Job("envelope", cls))
    /\ UNCHANGED restVars

\* Envelope.create(st, content, cls, "request") up to its call of
\* st.get_next_tx_id(): None.encode raises AttributeError when presenter-id or
\* authentication is not configured.
EnvelopeCreate ==
    /\ pc = "idle"
    /\ content # NoContent
    /\ Len(log) < MaxLog
    /\ \E cls \in ClassesFor(content.tag) :
          IF None \in {Get(config, "presenter-id"), Get(config, "authentication")}
          THEN /\ ret' = Raised("envelope")
               /\ log' = Append(log, Event("raise_env", 0, mem.tx))
               /\ UNCHANGED <<file, mem, pc, call, job, entry, boot>>
          ELSE BeginNextTx(Job("envelope", cls))
    /\ UNCHANGED restVars

\* Envelope.create after the store returned the transaction id.
ReturnToEnvelope ==
    /\ pc = "flushed"
    /\ job.op = "envelope"
    /\ pc' = "idle"
    /\ call' = "none"
    /\ job' = NoJob
    /\ env' = EnvelopeOf(config, content, job.cls, "request", TxReturnValue(mem))
    /\ ret' = Returned("envelope", TxReturnValue(mem), NoText)
    /\ log' = Append(log, Event("env", ParseInt(env'.TransactionID), entry.tx))
    /\ entry' = mem
    /\ UNCHANGED <<file, mem, boot>>
    /\ UNCHANGED <<config, content>>
    /\ UNCHANGED clientVars
    /\ UNCHANGED auxVars

\* ------------------------------------------------------------- client

\* Most Error entries a response carries.
MaxErrors == 2

\* The codes review_errors tells apart.
ErrnoAuthentication == 502

ErrnoAccountsCorruption == 9999

ErrnoValidation == 100

\* An Error entry of GovTalkDetails/GovTalkErrors: its Number and Text
\* children, each present or not.
Entry(hasNumber, number, hasText, text) ==
    [hasNumber |-> hasNumber, number |-> number, hasText |-> hasText, text |-> text]

\* Number texts: the three known codes, another code, and text int() rejects.
NumberTexts ==
    {<<"5", "0", "2">>, <<"9", "9", "9", "9">>, <<"1", "0", "0">>,
     <<"4", "1", "8">>, <<"a", "b", "c">>}

ErrorTexts == {"X", "Authentication failure"}

Entries ==
    {Entry(TRUE, n, TRUE, t) : n \in NumberTexts, t \in ErrorTexts}
        \cup {Entry(TRUE, n, FALSE, "") : n \in NumberTexts}
        \cup {Entry(FALSE, NoText, TRUE, t) : t \in ErrorTexts}
        \cup {Entry(FALSE, NoText, FALSE, "")}

\* A response body: whether it parses as XML, and the Error entries under
\* GovTalkDetails/GovTalkErrors, in document order.
Body(xml, hasDetails, hasErrors, errors) ==
    [xml |-> xml, hasDetails |-> hasDetails, hasErrors |-> hasErrors,
     errors |-> errors]

NoBody == Body(FALSE, FALSE, FALSE, <<>>)

SeqsUpTo(S, n) == UNION {[1..k -> S] : k \in 0..n}

XmlBodies ==
    {Body(TRUE, FALSE, FALSE, <<>>), Body(TRUE, TRUE, FALSE, <<>>)}
        \cup {Body(TRUE, TRUE, TRUE, es) : es \in SeqsUpTo(Entries, MaxErrors)}

\* What requests.post did: raised an exception of class cls, or completed
\* with a status code and a body.
ExchangeRaised(cls, msg) ==
    [kind |-> "exc", cls |-> cls, msg |-> msg, status |-> 0, body |-> NoBody]

ExchangeDone(status, body) ==
    [kind |-> "http", cls |-> "", msg |-> "", status |-> status, body |-> body]

NoExchange == [kind |-> "none", cls |-> "", msg |-> "", status |-> 0, body |-> NoBody]

TransportErrors ==
    {"SSLError", "ConnectionError", "ProxyError", "ConnectTimeout",
     "ReadTimeout", "Timeout"}

\* The classes of requests.exceptions each exception class derives from.
Bases(cls) ==
    CASE cls = "SSLError" -> {"SSLError", "ConnectionError"}
      [] cls = "ProxyError" -> {"ProxyError", "ConnectionError"}
      [] cls = "ConnectTimeout" -> {"ConnectTimeout", "ConnectionError", "Timeout"}
      [] cls = "ReadTimeout" -> {"ReadTimeout", "Timeout"}
      [] OTHER -> {cls}

\* str(e) of the exception requests.post raised.
TransportMessages == {"connection failed", "certificate verify failed"}

\* Status codes of completed exchanges other than 200.
OtherStatuses == {201, 404, 500, 502, 503}

\* A response whose only Error entry is 502 with Text X.
AuthErrorBody ==
    Body(TRUE, TRUE, TRUE, <<Entry(TRUE, <<"5", "0", "2">>, TRUE, "X")>>)

\* Bodies objectify.fromstring rejects: an empty or non-XML text, and the
\* text of AuthErrorBody cut short before its end.
MalformedBodies == {NoBody, [AuthErrorBody EXCEPT !.xml = FALSE]}

Exchanges ==
    {ExchangeRaised(c, m) : c \in TransportErrors, m \in TransportMessages}
        \cup {ExchangeDone(200, b) : b \in XmlBodies \cup MalformedBodies}
        \cup {ExchangeDone(st, b) :
                st \in OtherStatuses, b \in {NoBody, AuthErrorBody}}

\* How a call ended: the document returned, or the exception raised.
ReturnedDoc(doc) == [kind |-> "returned", cls |-> "", msg |-> "", doc |-> doc]

RaisedExc(cls, msg) == [kind |-> "raised", cls |-> cls, msg |-> msg, doc |-> NoBody]

NoOutcome == [kind |-> "none", cls |-> "", msg |-> "", doc |-> NoBody]

\* The value bound to `err` in review_errors: None, an Error element, or an
\* exception object.
ErrNone == [k |-> "none", cls |-> "", msg |-> "", e |-> Entry(FALSE, NoText, FALSE, "")]

ErrElement(e) == [k |-> "elem", cls |-> "", msg |-> "", e |-> e]

ErrException(cls, msg) ==
    [k |-> "exc", cls |-> cls, msg |-> msg, e |-> Entry(FALSE, NoText, FALSE, "")]

\* Progress through the try block: the value of err, and whether an
\* exception has left the block (to the bare except, which passes).
Progress(err, left) == [err |-> err, left |-> left]

\* int(err.Number): AttributeError without a Number child, ValueError for
\* text that is not a number.
NumberParses(e) ==
    /\ e.hasNumber
    /\ Len(e.number) > 0
    /\ \A i \in 1..Len(e.number) : IsDigit(e.number[i])

\* err = cls(err.Text): err.Text raises AttributeError when err is an element
\* without a Text child, and when err is already an exception object.
Assign(p, cls) ==
    IF p.err.k = "elem" /\ p.err.e.hasText
    THEN Progress(ErrException(cls, p.err.e.text), FALSE)
    ELSE Progress(p.err, TRUE)

\* if errno == 502: ... / if errno == 9999: ...
IfErrno(p, errno, code, cls) ==
    IF p.left \/ errno # code THEN p ELSE Assign(p, cls)

\* Mutant: the else branch takes the message from the entry, whatever err is
\* bound to by then.
IfElseErrnoFromEntry(p, errno, code, cls, e) ==
    IF p.left THEN p
    ELSE IF errno = code THEN Assign(p, cls)
    ELSE IF e.hasText THEN Progress(ErrException("RuntimeError", e.text), FALSE)
    ELSE Progress(p.err, TRUE)

\* Mutant: no else branch, a code that is none of the three leaves err as it is.
IfElseErrnoNoElse(p, errno, code, cls, e) ==
    IF p.left \/ errno # code THEN p ELSE Assign(p, cls)

\* if errno == 100: ... else: err = RuntimeError(err.Text)
IfElseErrno(p, errno, code, cls, e) ==
    IF p.left THEN p
    ELSE IF errno = code THEN Assign(p, cls)
    ELSE Assign(p, "RuntimeError")

\* The body of the for loop for the first Error entry, up to the break.
ClassifyFirst(e) ==
    IF ~NumberParses(e) THEN Progress(ErrElement(e), TRUE)
    ELSE LET errno == ParseInt(e.number)
             p0 == Progress(ErrElement(e), FALSE)
             p1 == IfErrno(p0, errno, ErrnoAuthentication, "AuthenticationFailure")
             p2 == IfErrno(p1, errno, ErrnoAccountsCorruption,
                           "SuspectedAccountsCorruption")
         IN  IfElseErrno(p2, errno, ErrnoValidation,
                         "SuspectedValidationFailure", e)

\* bool(err): an exception object is true; an element with children is true;
\* an element with neither children nor text is false.
Truthy(err) ==
    CASE err.k = "none" -> FALSE
      [] err.k = "exc" -> TRUE
      [] OTHER -> err.e.hasNumber \/ err.e.hasText

\* Mutant: no try/except around the loop, so a document without the
\* GovTalkDetails/GovTalkErrors/Error path raises AttributeError.
ReviewErrorsUnguarded(doc) ==
    IF doc.hasDetails /\ doc.hasErrors /\ Len(doc.errors) > 0
    THEN LET err == ClassifyFirst(doc.errors[1]).err
         IN  IF ~Truthy(err) THEN NoOutcome
             ELSE IF err.k = "exc" THEN RaisedExc(err.cls, err.msg)
             ELSE RaisedExc("TypeError", "exceptions must derive from BaseException")
    ELSE RaisedExc("AttributeError", "no such child")

\* Mutant: no break, the loop goes on to the last Error entry.
ReviewErrorsNoBreak(doc) ==
    LET err == IF doc.hasDetails /\ doc.hasErrors /\ Len(doc.errors) > 0
               THEN ClassifyFirst(doc.errors[Len(doc.errors)]).err
               ELSE ErrNone
    IN  IF ~Truthy(err) THEN NoOutcome
        ELSE IF err.k = "exc" THEN RaisedExc(err.cls, err.msg)
        ELSE RaisedExc("TypeError", "exceptions must derive from BaseException")

\* Client.review_errors: the exception it raises, or NoOutcome.
ReviewErrors(doc) ==
    LET err == IF doc.hasDetails /\ doc.hasErrors /\ Len(doc.errors) > 0
               THEN ClassifyFirst(doc.errors[1]).err
               ELSE ErrNone
    IN  IF ~Truthy(err) THEN NoOutcome
        ELSE IF err.k = "exc" THEN RaisedExc(err.cls, err.msg)
        ELSE RaisedExc("TypeError", "exceptions must derive from BaseException")

\* Mutant: the except clauses in the other order, ConnectionError first.
CallOutcomeConnectionFirst(x) ==
    IF x.kind = "exc"
    THEN IF "ConnectionError" \in Bases(x.cls)
         THEN RaisedExc("RequestFailure", x.msg)
         ELSE IF "SSLError" \in Bases(x.cls) THEN RaisedExc("PrivacyFailure", x.msg)
         ELSE RaisedExc(x.cls, x.msg)
    ELSE IF x.status # 200
         THEN RaisedExc("RuntimeError", "Status " \o Join(IntToStr(x.status)))
    ELSE IF ~x.body.xml THEN RaisedExc("XMLSyntaxError", "")
    ELSE IF ReviewErrors(x.body) # NoOutcome THEN ReviewErrors(x.body)
    ELSE ReturnedDoc(x.body)

\* Mutant: the body is parsed and classified before the status is looked at.
CallOutcomeClassifyAnyStatus(x) ==
    IF x.kind = "exc"
    THEN IF "SSLError" \in Bases(x.cls) THEN RaisedExc("PrivacyFailure", x.msg)
         ELSE IF "ConnectionError" \in Bases(x.cls)
              THEN RaisedExc("RequestFailure", x.msg)
         ELSE RaisedExc(x.cls, x.msg)
    ELSE IF x.body.xml /\ ReviewErrors(x.body) # NoOutcome THEN ReviewErrors(x.body)
    ELSE IF x.status # 200
         THEN RaisedExc("RuntimeError", "Status " \o Join(IntToStr(x.status)))
    ELSE IF ~x.body.xml THEN RaisedExc("XMLSyntaxError", "")
    ELSE ReturnedDoc(x.body)

\* Mutant: a parser that recovers from malformed text and hands on what it
\* could read.
CallOutcomeRecoveringParser(x) ==
    IF x.kind = "exc"
    THEN IF "SSLError" \in Bases(x.cls) THEN RaisedExc("PrivacyFailure", x.msg)
         ELSE IF "ConnectionError" \in Bases(x.cls)
              THEN RaisedExc("RequestFailure", x.msg)
         ELSE RaisedExc(x.cls, x.msg)
    ELSE IF x.status # 200
         THEN RaisedExc("RuntimeError", "Status " \o Join(IntToStr(x.status)))
    ELSE IF ReviewErrors(x.body) # NoOutcome THEN ReviewErrors(x.body)
    ELSE ReturnedDoc(x.body)

\* Client.call after requests.post: the outcome for what the HTTP layer did.
CallOutcome(x) ==
    IF x.kind = "exc"
    THEN IF "SSLError" \in Bases(x.cls) THEN RaisedExc("PrivacyFailure", x.msg)
         ELSE IF "ConnectionError" \in Bases(x.cls)
              THEN RaisedExc("RequestFailure", x.msg)
         ELSE RaisedExc(x.cls, x.msg)
    ELSE IF x.status # 200
         THEN RaisedExc("RuntimeError", "Status " \o Join(IntToStr(x.status)))
    ELSE IF ~x.body.xml THEN RaisedExc("XMLSyntaxError", "")
    ELSE IF ReviewErrors(x.body) # NoOutcome THEN ReviewErrors(x.body)
    ELSE ReturnedDoc(x.body)

ClientInit ==
    /\ exch = NoExchange
    /\ outcome = NoOutcome
    /\ posts = 0
    /\ calls = 0

\* Mutant: a transport failure is answered by a second POST before the call
\* gives up.
CallEffectRetrying(xs) ==
    /\ \E x \in xs :
          /\ exch' = x
          /\ outcome' = CallOutcome(x)
          /\ posts' = IF x.kind = "exc" THEN posts + 2 ELSE posts + 1
    /\ calls' = calls + 1

\* Client.call, lines 39-54: the one requests.post, answered by one of xs, and
\* the one way the call ends.
CallEffect(xs) ==
    /\ \E x \in xs :
          /\ exch' = x
          /\ outcome' = CallOutcome(x)
    /\ posts' = posts + 1
    /\ calls' = calls + 1

\* Client.call(st, env) on its own: the store and the request are left alone.
CallWith(xs) ==
    /\ CallEffect(xs)
    /\ UNCHANGED storeVars
    /\ UNCHANGED <<config, content, env>>
    /\ UNCHANGED auxVars

\* One invocation of Client.call by a client that has made none yet.
Call ==
    /\ posts = 0
    /\ CallWith(Exchanges)

\* What the gateway and the network do to the requests of a filing run: a
\* refused connection, a read timeout, an error status, a body that does not
\* parse, an authentication error, and a response without errors.
PipeExchanges ==
    {ExchangeRaised("ConnectionError", "connection failed"),
     ExchangeRaised("ReadTimeout", "connection failed"),
     ExchangeDone(503, NoBody),
     ExchangeDone(200, NoBody),
     ExchangeDone(200, AuthErrorBody),
     ExchangeDone(200, Body(TRUE, TRUE, FALSE, <<>>))}

\* What the caller of cli.call(st, env) sees, and the history entry for it:
\* the transaction id of the envelope sent and the counter after the call.
CallRecord ==
    /\ ret' = IF outcome'.kind = "returned"
              THEN Returned("call", ParseInt(env.TransactionID), NoText)
              ELSE Raised("call")
    /\ log' = Append(log, Event(IF outcome'.kind = "returned"
                                 THEN "call_ok" ELSE "call_fail",
                                 ParseInt(env.TransactionID), mem'.tx))

\* Mutant: a call that fails gives the transaction id back to the counter.
CallEnvelopeRollback ==
    /\ pc = "idle"
    /\ env # NoEnvelope
    /\ Len(log) < MaxLog
    /\ CallEffect(PipeExchanges)
    /\ mem' = IF outcome'.kind = "raised" THEN [mem EXCEPT !.tx = @ - 1] ELSE mem
    /\ CallRecord
    /\ UNCHANGED <<file, pc, call, job, entry, boot>>
    /\ UNCHANGED <<config, content, env>>
    /\ UNCHANGED auxVars

\* renv = cli.call(st, env) with the envelope built last: Client.call reads
\* the url from the State and leaves its counters alone.
CallEnvelope ==
    /\ pc = "idle"
    /\ env # NoEnvelope
    /\ Len(log) < MaxLog
    /\ CallEffect(PipeExchanges)
    /\ mem' = mem
    /\ CallRecord
    /\ UNCHANGED <<file, pc, call, job, entry, boot>>
    /\ UNCHANGED <<config, content, env>>
    /\ UNCHANGED auxVars

\* --------------------------------------------------------- mock gateway

\* Most POSTs the mock gateway handles.
MaxPosts == 2

\* The one path do_POST serves.
GatewayPath == "/v1-0/xmlgw/Gateway"

\* The path of the url the client posts to.
PathOf(url) ==
    IF url = "http://localhost:9303/v1-0/xmlgw/Gateway" THEN GatewayPath ELSE "/"

\* Texts int() accepts and does not give back as they were.
LeadingZeroTexts == "01234567" :> "1234567"

\* str() of an objectify element: a text that reads as a number is given
\* back as that number prints, any other text as it is.
ObjectifyStr(s) ==
    IF s \in DOMAIN LeadingZeroTexts THEN LeadingZeroTexts[s] ELSE s

\* TestData.company_data, its keys.
CompanyNumbers == {"1234567", "01234567", "12345678"}

\* A POST: its path, whether its body parses as XML, whether the header
\* holds SenderDetails/IDAuthentication, and the envelope.
Request(path, xml, hasAuth, e) ==
    [path |-> path, xml |-> xml, hasAuth |-> hasAuth, env |-> e]

\* ResponseBuilder.build_error_response, as Client.call reads it back.
ErrorResponse(code, text) ==
    Body(TRUE, TRUE, TRUE, <<Entry(TRUE, IntToStr(code), TRUE, text)>>)

\* ResponseBuilder.build_envelope around a body: GovTalkDetails with Keys and
\* no GovTalkErrors.
PlainResponse == Body(TRUE, TRUE, FALSE, <<>>)

\* What do_POST answered: status, body, the handler routed to, and
\* TestData.submissions afterwards.
Answer(status, body, handler, after) ==
    [status |-> status, body |-> body, handler |-> handler, after |-> after]

\* Mutant: only the SenderID is compared.
ValidateAuthenticationSenderOnly(s, req) ==
    /\ req.hasAuth
    /\ ObjectifyStr(req.env.SenderID) = Md5(s.presenter_id)

\* RequestHandler._validate_authentication: False when an element is missing.
ValidateAuthentication(s, req) ==
    /\ req.hasAuth
    /\ ObjectifyStr(req.env.SenderID) = Md5(s.presenter_id)
    /\ ObjectifyStr(req.env.Value) = Md5(s.authentication)

\* RequestHandler._handle_company_data
HandleCompanyData(s, e) ==
    Answer(200,
           IF e.Body.tag # "CompanyDataRequest"
           THEN ErrorResponse(100, "Error processing request")
           ELSE IF ObjectifyStr(e.Body.fields["CompanyAuthenticationCode"])
                       # s.company_auth_code
                THEN ErrorResponse(502, "Invalid company authentication code")
           ELSE IF ObjectifyStr(e.Body.fields["CompanyNumber"]) \notin CompanyNumbers
                THEN ErrorResponse(100, "Company not found")
           ELSE PlainResponse,
           "_handle_company_data", s.submissions)

\* TestData.add_submission, without the timestamp.
AddSubmission(subs, id, status, company_number, data) ==
    (id :> [id |-> id, status |-> status, company_number |-> company_number,
            data |-> data])
        @@ subs

\* RequestHandler._handle_accounts_submission
HandleAccountsSubmission(s, e) ==
    IF e.Body.tag # "FormSubmission"
    THEN Answer(200, ErrorResponse(9999, "Error processing accounts"),
                "_handle_accounts_submission", s.submissions)
    ELSE Answer(200, PlainResponse, "_handle_accounts_submission",
                AddSubmission(s.submissions,
                              ObjectifyStr(e.Body.fields["SubmissionNumber"]),
                              "accepted",
                              ObjectifyStr(e.Body.fields["CompanyNumber"]),
                              ObjectifyStr(e.Body.fields["Data"])))

\* RequestHandler._handle_submission_status: a request without
\* SubmissionNumber is answered with every submission.
HandleSubmissionStatus(s, e) ==
    Answer(200, PlainResponse, "_handle_submission_status", s.submissions)

\* RequestHandler._handle_accounts_image
HandleAccountsImage(s, e) ==
    Answer(200, PlainResponse, "_handle_accounts_image", s.submissions)

\* RequestHandler.do_POST, lines 11-56.
DoPost(s, req) ==
    IF req.path # GatewayPath
    THEN Answer(404, NoBody, "none", s.submissions)
    ELSE IF ~req.xml
    THEN Answer(500, NoBody, "none", s.submissions)
    ELSE IF ~s.fail_auth /\ ~ValidateAuthentication(s, req)
    THEN Answer(200, ErrorResponse(502, "Authentication failure"), "none",
                s.submissions)
    ELSE CASE req.env.Class = "CompanyDataRequest" -> HandleCompanyData(s, req.env)
           [] req.env.Class = "Accounts" -> HandleAccountsSubmission(s, req.env)
           [] req.env.Class = "GetSubmissionStatus" ->
                  HandleSubmissionStatus(s, req.env)
           [] req.env.Class = "AccountsImage" -> HandleAccountsImage(s, req.env)
           [] OTHER -> Answer(200, ErrorResponse(100, "Unknown message class"),
                              "none", s.submissions)

\* The gateway after one POST.
Served(s, via, req) ==
    LET a == DoPost(s, req)
    IN  [s EXCEPT !.submissions = a.after,
                  !.count = @ + 1,
                  !.last = Handled(via, req, a.status, a.body, a.handler,
                                   s.submissions, a.after)]

\* Client.call(st, env) against the mock gateway: the envelope built last is
\* posted to the configured url and the gateway's answer is classified.
ServerCall ==
    /\ pc = "idle"
    /\ env # NoEnvelope
    /\ srv.count < MaxPosts
    /\ srv' = Served(srv, "client",
                     Request(PathOf(Get(config, "url")), TRUE, TRUE, env))
    /\ CallEffect({ExchangeDone(srv'.last.status, srv'.last.body)})
    /\ UNCHANGED storeVars
    /\ UNCHANGED <<config, content, env>>
    /\ UNCHANGED <<got, peer, thr>>

\* Requests of another sender: its own credentials, filing accounts or
\* naming a class the gateway does not know; a wrong path; a body that is
\* not XML; a header without IDAuthentication.
OtherRequests ==
    LET filing == EnvelopeOf(ConfigB,
                             FormSubmission(ConfigB, "accounts.html", "<html/>",
                                            FormatSubId(1)),
                             "Accounts", "request", 1)
        asking == EnvelopeOf(ConfigA, CompanyDataRequest(ConfigA),
                             "CompanyDataRequest", "request", 1)
    IN  {Request(GatewayPath, TRUE, TRUE, filing),
         Request(GatewayPath, TRUE, TRUE, [asking EXCEPT !.Class = "Unknown"]),
         Request("/", TRUE, TRUE, asking),
         Request(GatewayPath, FALSE, FALSE, asking),
         Request(GatewayPath, TRUE, FALSE, asking)}

\* A POST that does not come from Client.call.
ServerPost ==
    /\ srv.count < MaxPosts
    /\ \E req \in OtherRequests : srv' = Served(srv, "other", req)
    /\ UNCHANGED storeVars
    /\ UNCHANGED <<config, content, env>>
    /\ UNCHANGED clientVars
    /\ UNCHANGED <<got, peer, thr>>

\* TestServer.reset, lines 68-70.
ServerReset ==
    /\ srv.submissions # <<>>
    /\ srv' = [srv EXCEPT !.submissions = <<>>]
    /\ UNCHANGED storeVars
    /\ UNCHANGED <<config, content, env>>
    /\ UNCHANGED clientVars
    /\ UNCHANGED <<got, peer, thr>>

vars == <<file, mem, pc, call, job, entry, boot, ret, log,
          config, content, env, exch, outcome, posts, calls, auxVars>>

\* The counter store used directly, as the unit tests of State use it.
Init ==
    /\ StoreInitOn(InitFiles)
    /\ config = ConfigA
    /\ content = NoContent
    /\ env = NoEnvelope
    /\ ClientInit
    /\ AuxInit

Next ==
    \/ CallNextTx
    \/ CallNextSub
    \/ WriteOpen
    \/ WriteFlush
    \/ ReturnNext
    \/ GetCurTxId
    \/ GetCurSubmissionId
    \/ Restart

Spec == Init /\ [][Next]_vars

\* State files the request-building runs start from.
EnvInitFiles == {FileAbsent, FileCounters(IntToStr(5), IntToStr(9))}

\* Building requests: a body, then the envelope around it.
InitEnv ==
    /\ StoreInitOn(EnvInitFiles)
    /\ config \in Configs
    /\ content = NoContent
    /\ env = NoEnvelope
    /\ ClientInit
    /\ AuxInit

NextEnv ==
    \/ CreateCompanyData
    \/ CreateStatusRequest
    \/ CreateSubmission
    \/ ReturnToAccounts
    \/ EnvelopeCreate
    \/ ReturnToEnvelope
    \/ WriteOpen
    \/ WriteFlush

SpecEnv == InitEnv /\ [][NextEnv]_vars

\* Client.call on the responses and transport failures of Exchanges.
InitClient ==
    /\ StoreInitOn({FileAbsent})
    /\ config = ConfigA
    /\ content = NoContent
    /\ env = NoEnvelope
    /\ ClientInit
    /\ AuxInit

NextClient == Call

SpecClient == InitClient /\ [][NextClient]_vars

\* Configurations the lookups run against.
LookupConfigs == {ConfigA, ConfigNoPresenter}

\* Configuration lookups between the operations of the counter store.
InitConfig ==
    /\ StoreInitOn({FileAbsent})
    /\ config \in LookupConfigs
    /\ content = NoContent
    /\ env = NoEnvelope
    /\ ClientInit
    /\ AuxInit

NextConfig ==
    \/ GetKey
    \/ CallNextTx
    \/ CallNextSub
    \/ WriteOpen
    \/ WriteFlush
    \/ ReturnNext
    \/ GetCurTxId
    \/ GetCurSubmissionId

SpecConfig == InitConfig /\ [][NextConfig]_vars

\* State files the second instance is constructed on.
PeerInitFiles == {FileAbsent, FileCounters(IntToStr(41), IntToStr(7))}

\* Two State instances on two state-file paths, used in any interleaving.
InitDistinct ==
    /\ StoreInitOn(EnvInitFiles)
    /\ config = ConfigA
    /\ content = NoContent
    /\ env = NoEnvelope
    /\ ClientInit
    /\ GotInit
    /\ \E f \in PeerInitFiles : peer = Peer("own", f, LoadState(f))
    /\ thr = NoThreads
    /\ srv = NoServer

NextDistinct ==
    \/ FirstCallNextTx
    \/ FirstCallNextSub
    \/ WriteOpen
    \/ WriteFlush
    \/ ReturnNext
    \/ PeerCallNextTx
    \/ PeerCallNextSub
    \/ PeerWriteOpen
    \/ PeerWriteFlush
    \/ PeerReturnNext

SpecDistinct == InitDistinct /\ [][NextDistinct]_vars

\* Two State instances constructed on one state-file path, every get_next_*
\* call made under one mutex.
InitSharedPath ==
    /\ StoreInitOn(EnvInitFiles)
    /\ config = ConfigA
    /\ content = NoContent
    /\ env = NoEnvelope
    /\ ClientInit
    /\ GotInit
    /\ peer = Peer("same", FileAbsent, LoadState(file))
    /\ thr = NoThreads
    /\ srv = NoServer

NextSharedPath ==
    \/ LockedCallNextTx
    \/ LockedCallNextSub
    \/ WriteOpen
    \/ WriteFlush
    \/ ReturnNext
    \/ LockedPeerCallNextTx
    \/ LockedPeerCallNextSub
    \/ PeerWriteOpen
    \/ PeerWriteFlush
    \/ PeerReturnNext

SpecSharedPath == InitSharedPath /\ [][NextSharedPath]_vars

\* Threads calling get_next_* on one shared State instance, no locking.
InitThreads ==
    /\ StoreInitOn(EnvInitFiles)
    /\ config = ConfigA
    /\ content = NoContent
    /\ env = NoEnvelope
    /\ ClientInit
    /\ GotInit
    /\ peer = NoPeer
    /\ thr = Threads(ThreadIds)
    /\ srv = NoServer

NextThreads ==
    \/ ThreadLoadTx
    \/ ThreadLoadSub
    \/ ThreadStoreAny
    \/ ThreadOpen
    \/ ThreadDumps
    \/ ThreadClose
    \/ ThreadReturn

SpecThreads == InitThreads /\ [][NextThreads]_vars

\* A filing run as __main__ makes it: a body, the envelope around it, the
\* call, and again after a failure.
InitPipe ==
    /\ StoreInitOn(EnvInitFiles)
    /\ config = ConfigA
    /\ content = NoContent
    /\ env = NoEnvelope
    /\ ClientInit
    /\ AuxInit

NextPipe ==
    \/ CreateCompanyData
    \/ EnvelopeCreate
    \/ ReturnToEnvelope
    \/ WriteOpen
    \/ WriteFlush
    \/ CallEnvelope

SpecPipe == InitPipe /\ [][NextPipe]_vars

\* Nothing has raised in the run of __main__ in progress.
RunAlive == pc = "idle" /\ ret.ok

\* __main__ --get-company-data, line 53.
CliCompanyData ==
    /\ RunAlive
    /\ content = NoContent
    /\ CreateCompanyData

\* __main__ --get-submission-status, lines 98-101.
CliStatusRequest ==
    /\ RunAlive
    /\ content = NoContent
    /\ CreateStatusRequest

\* Mutant: the accounts body is built around the current submission id,
\* without allocating one.
CliSubmissionReusingId ==
    /\ RunAlive
    /\ content = NoContent
    /\ content' = FormSubmission(config, "accounts.html", "<html/>",
                                 FormatSubId(mem.sub))
    /\ ret' = Returned("accounts", mem.sub, FormatSubId(mem.sub))
    /\ UNCHANGED <<file, mem, pc, call, job, entry, boot, log>>
    /\ UNCHANGED <<config, env>>
    /\ UNCHANGED clientVars
    /\ UNCHANGED auxVars

\* __main__ --submit-accounts and --accounts-image, lines 87 and 114.
CliSubmission ==
    /\ RunAlive
    /\ content = NoContent
    /\ CreateSubmission

\* env = Envelope.create(st, content, cls, "request"), lines 54, 89, 103, 116.
CliEnvelope ==
    /\ RunAlive
    /\ env = NoEnvelope
    /\ EnvelopeCreate

\* renv = cli.call(st, env), lines 55, 92, 104, 117.
CliCall ==
    /\ RunAlive
    /\ calls = 0
    /\ CallEnvelope

\* The run is over, by the call or by an exception, and __main__ is started
\* again on the same state file: State.__init__ and Client.__init__.
CliNextRun ==
    /\ pc = "idle"
    /\ calls = 1 \/ ~ret.ok
    /\ Len(log) < MaxLog
    /\ mem' = LoadState(file)
    /\ entry' = LoadState(file)
    /\ boot' = Booted(file)
    /\ ret' = NoRet
    /\ log' = Append(log, Event("restart", LoadState(file).tx, LoadState(file).sub))
    /\ content' = NoContent
    /\ env' = NoEnvelope
    /\ exch' = NoExchange
    /\ outcome' = NoOutcome
    /\ posts' = 0
    /\ calls' = 0
    /\ UNCHANGED <<file, pc, call, job, config>>
    /\ UNCHANGED auxVars

\* Runs of __main__, one operation each, on one state file.
InitCli ==
    /\ StoreInitOn(EnvInitFiles)
    /\ config = ConfigA
    /\ content = NoContent
    /\ env = NoEnvelope
    /\ ClientInit
    /\ AuxInit

NextCli ==
    \/ CliCompanyData
    \/ CliStatusRequest
    \/ CliSubmission
    \/ ReturnToAccounts
    \/ CliEnvelope
    \/ ReturnToEnvelope
    \/ WriteOpen
    \/ WriteFlush
    \/ CliCall
    \/ CliNextRun

SpecCli == InitCli /\ [][NextCli]_vars

\* The settings a mock gateway is started with.
ServerSettings ==
    {TestServer(p, a, "CAC123", f) :
        p \in {"PRESENTER_A", "PRESENTER_B"}, a \in {"AUTH_A", "AUTH_B"},
        f \in BOOLEAN}
        \cup {TestServer("PRESENTER_A", "AUTH_A", "TEST1234", FALSE)}

\* renv = cli.call(st, env) of a run whose url is the mock gateway's.
CliServerCall ==
    /\ RunAlive
    /\ calls = 0
    /\ ServerCall

\* Runs of __main__ and other senders against one mock gateway.
InitServer ==
    /\ StoreInitOn({FileAbsent})
    /\ config = ConfigA
    /\ content = NoContent
    /\ env = NoEnvelope
    /\ ClientInit
    /\ GotInit
    /\ peer = NoPeer
    /\ thr = NoThreads
    /\ srv \in ServerSettings

NextServer ==
    \/ CliCompanyData
    \/ CliStatusRequest
    \/ CliSubmission
    \/ ReturnToAccounts
    \/ CliEnvelope
    \/ ReturnToEnvelope
    \/ WriteOpen
    \/ WriteFlush
    \/ CliServerCall
    \/ CliNextRun
    \/ ServerPost
    \/ ServerReset

SpecServer == InitServer /\ [][NextServer]_vars

\* ------------------------------------------------- history of the store

IsReboot(e) == e.e \in {"restart", "crash"}

\* Index of the first history entry of the live instance.
SegStart ==
    LET boots == {i \in 1..Len(log) : IsReboot(log[i])}
    IN  IF boots = {} THEN 1 ELSE 1 + (CHOOSE i \in boots : \A k \in boots : k <= i)

\* History entries of kind e made by the live instance.
SegEvents(e) == {i \in SegStart..Len(log) : log[i].e = e}

MaxOf(S) == CHOOSE i \in S : \A k \in S : k <= i

\* The caller is between operations and the last thing it saw is `op` returning.
JustReturned(op) == pc = "idle" /\ ret.op = op /\ ret.ok

\* Two get_next_tx_id returns with no other get_next_tx_id call, raising or
\* not, and no restart between them.
AdjacentTx(i, j) ==
    /\ i < j
    /\ log[i].e = "tx"
    /\ log[j].e = "tx"
    /\ \A k \in (i + 1)..(j - 1) : log[k].e \in {"sub", "raise_sub"}

\* ------------------------------------------------------------- claims

\* C1: consecutive get_next_tx_id calls on one instance, starting from current
\* value c, return c+1, c+2, ... with no gap and no repeat, and after each
\* return get_cur_tx_id equals the value just returned.
C1_ConsecutiveTxIds ==
    /\ \A i \in 1..Len(log) : log[i].e = "tx" => log[i].v = log[i].c + 1
    /\ \A i, j \in 1..Len(log) : AdjacentTx(i, j) => log[j].v = log[i].v + 1
    /\ JustReturned("next_tx") => mem.tx = ret.num /\ log[Len(log)].v = ret.num

\* C1 witness: three get_next_tx_id calls in a row have returned.
C1_Witness ==
    /\ Len(log) >= 3
    /\ \A i \in (Len(log) - 2)..Len(log) : log[i].e = "tx"
    /\ JustReturned("next_tx")

\* C2: when get_next_tx_id or get_next_submission_id returns a value, the state
\* file already holds that counter value.
C2_PersistBeforeReturn ==
    /\ JustReturned("next_tx") =>
           file.kind = "counters" /\ ParseInt(file.tx) = ret.num
    /\ JustReturned("next_sub") =>
           file.kind = "counters" /\ ParseInt(file.sub) = ret.num

\* C2 witness: both kinds of next call have returned on a store whose file was
\* absent at construction.
C2_Witness ==
    /\ JustReturned("next_sub")
    /\ boot.kind = "absent"
    /\ SegEvents("tx") # {}

\* The live instance was constructed by a clean restart after calls that all
\* returned, and has not been used since.
CleanlyRestarted ==
    /\ pc = "idle"
    /\ Len(log) >= 2
    /\ log[Len(log)].e = "restart"
    /\ LET prev == {i \in 1..(Len(log) - 1) : IsReboot(log[i])}
           from == IF prev = {} THEN 1 ELSE 1 + MaxOf(prev)
       IN  /\ from < Len(log)
           /\ \A i \in from..(Len(log) - 1) : log[i].e \in {"tx", "sub"}

\* The last value of kind e returned before the most recent restart.
LastBeforeRestart(e) ==
    LET prev == {i \in 1..(Len(log) - 1) : IsReboot(log[i])}
        from == IF prev = {} THEN 1 ELSE 1 + MaxOf(prev)
        hits == {i \in from..(Len(log) - 1) : log[i].e = e}
    IN  IF hits = {} THEN -1 ELSE log[MaxOf(hits)].v

\* C3: after successful next calls and a restart without a crash, the new
\* State reports the last transaction id and the last submission counter
\* value that were returned.
C3_RestartRoundTrip ==
    CleanlyRestarted =>
        /\ mem.shape = "counters"
        /\ LastBeforeRestart("tx") # -1 => mem.tx = LastBeforeRestart("tx")
        /\ LastBeforeRestart("sub") # -1 => mem.sub = LastBeforeRestart("sub")

\* C3 witness: a clean restart after both a transaction id and a submission id
\* were returned, the submission counter having reached two digits.
C3_Witness ==
    /\ CleanlyRestarted
    /\ LastBeforeRestart("tx") > 0
    /\ LastBeforeRestart("sub") >= 10

\* What the claim says get_cur_tx_id returns: the last value get_next_tx_id
\* returned on the live instance, or the loaded value when none was returned.
ExpectedCurTx ==
    IF SegEvents("tx") = {} THEN boot.tx ELSE log[MaxOf(SegEvents("tx"))].v

\* C4 (as claimed): between operations, also after a get_next_tx_id call that
\* raised because the file could not be written, get_cur_tx_id returns the
\* last value get_next_tx_id returned, or the loaded value if none was.
C4_CurIsLastReturned ==
    (pc = "idle" /\ mem.shape = "counters") => mem.tx = ExpectedCurTx

\* C5: get_next_submission_id at counter k < 99999 sets it to k+1 and returns
\* 'S' followed by k+1 zero-padded to five digits; 'S00001' at k = 0.
C5_SubmissionIdFormat ==
    (JustReturned("next_sub") /\ log[Len(log)].c < 99999) =>
        /\ log[Len(log)].e = "sub"
        /\ ret.num = log[Len(log)].c + 1
        /\ mem.sub = ret.num
        /\ Len(ret.str) = 6
        /\ ret.str[1] = "S"
        /\ \A i \in 2..6 : IsDigit(ret.str[i])
        /\ ParseInt(SubSeq(ret.str, 2, 6)) = ret.num
        /\ log[Len(log)].c = 0 => ret.str = <<"S", "0", "0", "0", "0", "1">>

\* C5 witness: a padded id was returned whose number has more than one digit.
C5_Witness ==
    /\ JustReturned("next_sub")
    /\ ret.num = 10
    /\ ret.str = <<"S", "0", "0", "0", "1", "0">>

\* C5 witness of the first id.
C5_WitnessFirst ==
    JustReturned("next_sub") /\ ret.str = <<"S", "0", "0", "0", "0", "1">>

MinOf(S) == CHOOSE i \in S : \A k \in S : i <= k

\* The get_next_tx_id calls of the live instance that have ended.
TxCalls == SegEvents("tx") \cup SegEvents("raise_tx")

\* The first get_next_tx_id call of the live instance has returned.
FirstTxCallReturned == TxCalls # {} /\ log[MinOf(TxCalls)].e = "tx"

\* C6: a State built on an absent or unparsable state file starts both
\* counters at 0, and its first get_next_tx_id returns 1.
C6_MissingOrCorruptStartsAtZero ==
    boot.kind \in {"absent", "empty", "garbage"} =>
        /\ boot.tx = 0
        /\ boot.sub = 0
        /\ (pc = "idle" /\ SegStart > Len(log)) => mem = DefaultState
        /\ FirstTxCallReturned => log[MinOf(TxCalls)].v = 1

\* C6 witness: the first get_next_tx_id of a State built on an unparsable file
\* has returned.
C6_Witness ==
    /\ boot.kind = "garbage"
    /\ FirstTxCallReturned
    /\ JustReturned("next_tx")

\* C6 witness of the truncated file: a State was built on a file a killed
\* write left empty.
C6_WitnessEmpty == boot.kind = "empty" /\ FirstTxCallReturned

\* C7 (as claimed): across next calls, crashes anywhere inside a call and
\* restarts, a transaction id returned after a restart is greater than every
\* transaction id returned before it.
C7_NeverResetAcrossRestarts ==
    \A i, j \in 1..Len(log) :
        (/\ i < j
         /\ log[i].e = "tx"
         /\ log[j].e = "tx"
         /\ \E k \in (i + 1)..(j - 1) : IsReboot(log[k]))
            => log[i].v < log[j].v

\* Two envelopes built with no other Envelope.create call, failed or not,
\* between them.
AdjacentEnv(i, j) ==
    /\ i < j
    /\ log[i].e = "env"
    /\ log[j].e = "env"
    /\ \A k \in (i + 1)..(j - 1) : log[k].e \in {"sub", "raise_sub"}

\* C8: each Envelope.create advances the transaction counter by exactly 1 and
\* stamps the value the store returned, which is get_cur_tx_id right after
\* the build; two successive builds carry ids t and t+1.
C8_OneTxIdPerEnvelope ==
    /\ \A i \in 1..Len(log) : log[i].e = "env" => log[i].v = log[i].c + 1
    /\ \A i, j \in 1..Len(log) : AdjacentEnv(i, j) => log[j].v = log[i].v + 1
    /\ JustReturned("envelope") =>
           /\ ParseInt(env.TransactionID) = ret.num
           /\ mem.tx = ret.num
           /\ log[Len(log)].e = "env"
           /\ mem.tx = log[Len(log)].c + 1

\* C8 witness: two envelopes were built one after the other on a store whose
\* file held transaction-id 5.
C8_Witness ==
    /\ JustReturned("envelope")
    /\ Len(log) >= 2
    /\ AdjacentEnv(Len(log) - 1, Len(log))
    /\ env.TransactionID = <<"7">>

\* No configured value other than the two secrets is itself a secret.
SecretsNotReused ==
    \A k \in DOMAIN config \ {"presenter-id", "authentication"} :
        config[k] \notin {Get(config, "presenter-id"), Get(config, "authentication")}

C9_WitnessAccounts ==
    JustReturned("envelope") /\ SecretsNotReused /\ env.Body.tag = "FormSubmission"

\* The call got HTTP 200 with a parsable body whose first Error entry has
\* Number `number` and Text `text`.
FirstErrorIs(number, text) ==
    /\ posts = 1
    /\ exch.kind = "http"
    /\ exch.status = 200
    /\ exch.body.xml
    /\ exch.body.hasDetails
    /\ exch.body.hasErrors
    /\ Len(exch.body.errors) >= 1
    /\ exch.body.errors[1] = Entry(TRUE, number, TRUE, text)

C10_WitnessAuth ==
    FirstErrorIs(<<"5", "0", "2">>, "Authentication failure") /\ outcome.kind = "raised"

\* The exception classes client.py defines.
TypedFailures ==
    {"AuthenticationFailure", "SuspectedAccountsCorruption",
     "SuspectedValidationFailure", "RequestFailure", "PrivacyFailure"}

\* Number texts that are integers other than the three codes told apart.
OtherCodes ==
    {n \in NumberTexts :
        /\ \A i \in 1..Len(n) : IsDigit(n[i])
        /\ ParseInt(n) \notin
               {ErrnoAuthentication, ErrnoAccountsCorruption, ErrnoValidation}}

ParsedResponse ==
    /\ posts = 1
    /\ exch.kind = "http"
    /\ exch.status = 200
    /\ exch.body.xml

\* The entries found at GovTalkDetails/GovTalkErrors/Error, none when the path
\* is absent.
ErrorEntries(doc) ==
    IF doc.hasDetails /\ doc.hasErrors THEN doc.errors ELSE <<>>

\* C12: a parsed response without any GovTalkDetails/GovTalkErrors/Error entry
\* raises nothing and is returned as parsed; whenever a document is returned
\* it is the parsed response, unmodified.
C12_NoErrorsReturnsDocument ==
    /\ (ParsedResponse /\ Len(ErrorEntries(exch.body)) = 0) =>
           outcome = ReturnedDoc(exch.body)
    /\ outcome.kind = "returned" => (ParsedResponse /\ outcome.doc = exch.body)

\* C12 witness: a response with GovTalkDetails but no GovTalkErrors was
\* returned.
C12_Witness ==
    /\ ParsedResponse
    /\ exch.body.hasDetails
    /\ ~exch.body.hasErrors
    /\ outcome.kind = "returned"

\* The document with its Error entries after the first removed.
FirstOnly(doc) == [doc EXCEPT !.errors = <<doc.errors[1]>>]

\* C13: with two or more error entries the exception raised is the one the
\* first entry alone gives, type and message; 502 followed by 100 raises
\* AuthenticationFailure with the first entry's text.
C13_FirstErrorWins ==
    (ParsedResponse /\ Len(ErrorEntries(exch.body)) >= 2) =>
        /\ LET alone == CallOutcome(ExchangeDone(200, FirstOnly(exch.body)))
           IN  /\ outcome.kind = alone.kind
               /\ outcome.cls = alone.cls
               /\ outcome.msg = alone.msg
        /\ \A X, Y \in ErrorTexts :
               (/\ exch.body.errors[1] = Entry(TRUE, <<"5", "0", "2">>, TRUE, X)
                /\ exch.body.errors[2] = Entry(TRUE, <<"1", "0", "0">>, TRUE, Y))
                   => outcome = RaisedExc("AuthenticationFailure", X)

\* C13 witness: a response with errors 502 then 100, of different texts, was
\* classified.
C13_Witness ==
    /\ ParsedResponse
    /\ Len(ErrorEntries(exch.body)) = 2
    /\ exch.body.errors[1] = Entry(TRUE, <<"5", "0", "2">>, TRUE, "Authentication failure")
    /\ exch.body.errors[2] = Entry(TRUE, <<"1", "0", "0">>, TRUE, "X")
    /\ outcome.kind = "raised"

\* C14 (as claimed): a parsed response with at least one Error entry under
\* GovTalkDetails/GovTalkErrors makes the call raise, whatever the shape of
\* the entry: Number missing or not a number, Text missing, or the entry
\* empty.
C14_EveryErrorEntryRaises ==
    (ParsedResponse /\ Len(ErrorEntries(exch.body)) >= 1) =>
        outcome.kind = "raised"

\* requests.post raised an exception of exactly class cls.
TransportFailure(cls) ==
    /\ posts = 1
    /\ exch.kind = "exc"
    /\ exch.cls = cls

C15_WitnessProxy == TransportFailure("ProxyError") /\ outcome.kind = "raised"

\* The POST completed with a status other than 200.
OtherStatus ==
    /\ posts = 1
    /\ exch.kind = "http"
    /\ exch.status # 200

\* C16: a completed exchange with a status other than 200 raises a plain
\* RuntimeError with message 'Status <code>', whatever the body holds; no
\* typed failure is raised, also for status 502 or a body with an Error entry.
C16_NonSuccessStatus ==
    OtherStatus =>
        /\ outcome = RaisedExc("RuntimeError",
                               "Status " \o Join(IntToStr(exch.status)))
        /\ outcome.cls \notin TypedFailures
        /\ exch.status = 502 => outcome.msg = "Status 502"
        /\ exch.status = 404 => outcome.msg = "Status 404"

\* C16 witness: status 502 with a body carrying error 502 ended the call.
C16_Witness ==
    /\ OtherStatus
    /\ exch.status = 502
    /\ exch.body = AuthErrorBody
    /\ outcome.kind = "raised"

\* The POST returned 200 with a body that is not well-formed XML.
MalformedResponse ==
    /\ posts = 1
    /\ exch.kind = "http"
    /\ exch.status = 200
    /\ ~exch.body.xml

\* C18: HTTP 200 with a body that is not well-formed XML makes the call raise
\* the parser's exception; no document is returned and the classifier is not
\* reached.
C18_MalformedBodyRaises ==
    MalformedResponse =>
        /\ outcome.kind = "raised"
        /\ outcome.cls = "XMLSyntaxError"
        /\ outcome.cls \notin TypedFailures

\* C18 witness: a response cut short after an Error entry ended the call.
C18_Witness ==
    /\ MalformedResponse
    /\ Len(exch.body.errors) = 1
    /\ outcome.kind = "raised"

\* C18 witness of the empty body.
C18_WitnessEmpty == MalformedResponse /\ exch.body = NoBody /\ outcome.kind = "raised"

\* The three kinds of timeout the HTTP layer raises.
TimeoutKinds == {"ConnectTimeout", "ReadTimeout", "Timeout"}

\* C19 (as claimed): a connect timeout, read timeout or general timeout raised
\* by the POST is propagated unchanged, the caller sees an exception of the
\* class that was raised.
C19_TimeoutsPropagate ==
    \A c \in TimeoutKinds :
        TransportFailure(c) => outcome = RaisedExc(c, exch.msg)

\* History entries of Client.call invocations.
IsCall(e) == e.e \in {"call_ok", "call_fail"}

\* C17: every Client.call issues exactly one POST and ends in exactly one
\* outcome, a returned document or a raised exception; no failure of any
\* kind is followed by a second POST within the call.
C17_SingleAttempt ==
    /\ posts = calls
    /\ calls = Cardinality({i \in 1..Len(log) : IsCall(log[i])})
    /\ calls > 0 =>
           /\ outcome.kind \in {"returned", "raised"}
           /\ outcome.kind = "returned" =>
                  (exch.kind = "http" /\ exch.status = 200 /\ outcome.doc = exch.body)
           /\ exch.kind = "exc" => outcome.kind = "raised"

\* C17 witness: two calls were made, the first failed and the second was
\* refused a connection.
C17_Witness ==
    /\ calls = 2
    /\ Len(log) >= 2
    /\ log[Len(log)].e = "call_fail"
    /\ \E i \in 1..(Len(log) - 1) : log[i].e = "call_fail"
    /\ exch.kind = "exc"
    /\ exch.cls = "ConnectionError"

\* C20: a transaction id consumed by Envelope.create stays consumed whatever
\* the outcome of the call that follows: the counter after the call is the
\* id of the envelope, its value before the build plus 1, and every envelope
\* built after a failed call carries an id greater than the failed one's.
C20_NoRollback ==
    /\ \A j \in 2..Len(log) :
           (IsCall(log[j]) /\ log[j - 1].e = "env") =>
               /\ log[j].v = log[j - 1].v
               /\ log[j].c = log[j - 1].c + 1
               /\ log[j].c = log[j].v
    /\ \A j, k \in 1..Len(log) :
           (j < k /\ log[j].e = "call_fail" /\ log[k].e = "env") =>
               log[k].v > log[j].v
    /\ (pc = "idle" /\ Len(log) >= 2 /\ IsCall(log[Len(log)])
            /\ log[Len(log) - 1].e = "env") =>
           mem.tx = log[Len(log) - 1].c + 1

\* C20 witness: an envelope was built and its call failed, then another was
\* built for the same request.
C20_Witness ==
    /\ JustReturned("envelope")
    /\ Len(log) = 3
    /\ log[1].e = "env"
    /\ log[2].e = "call_fail"
    /\ log[3].e = "env"
    /\ log[3].v = log[1].v + 1

\* The value the configuration mapping holds for a key, None without one.
Configured(key) == IF key \in DOMAIN config THEN config[key] ELSE None

\* C26: get(key) returns the configured value, None for an unknown key and
\* never an exception; two lookups of one key return the same value, with
\* or without get_next_* / get_cur_* calls around them, and no operation
\* modifies the configuration mapping.
C26_GetIsPureRead ==
    /\ [](/\ \A i \in 1..Len(got) : got[i].val = Configured(got[i].key)
          /\ \A i \in 1..Len(got) :
                 got[i].key \notin DOMAIN config => got[i].val = None
          /\ \A i, j \in 1..Len(got) :
                 got[i].key = got[j].key => got[i].val = got[j].val)
    /\ [][config' = config]_vars

\* C26 witness: presenter-id was looked up twice in a configuration without
\* it, after get_next_tx_id and get_next_submission_id had both returned.
C26_Witness ==
    /\ Len(got) = 2
    /\ got[1].key = "presenter-id"
    /\ got[2].key = "presenter-id"
    /\ got[1].val = None
    /\ SegEvents("tx") # {}
    /\ SegEvents("sub") # {}

\* The configuration lacks presenter-id or authentication.
MissingSecret ==
    None \in {Get(config, "presenter-id"), Get(config, "authentication")}

\* The step is an Envelope.create that raised before it reached the store.
EnvelopeRaised ==
    /\ Len(log') = Len(log) + 1
    /\ log'[Len(log')].e = "raise_env"

\* C27: with presenter-id or authentication not configured, Envelope.create
\* never reaches the counter store and builds nothing, and the build that
\* raises leaves both counters and the state file as they were.
C27_RaisesBeforeAllocation ==
    /\ [](MissingSecret =>
              /\ job.op # "envelope"
              /\ env = NoEnvelope
              /\ SegEvents("env") = {}
              /\ mem.tx = boot.tx
              /\ file.kind = "counters" => ParseInt(file.tx) = boot.tx)
    /\ [][EnvelopeRaised =>
              /\ MissingSecret
              /\ ~ret'.ok
              /\ mem' = mem
              /\ file' = file
              /\ pc' = "idle"]_vars

\* C27 witness: an accounts submission was built and persisted its
\* submission id, then the envelope build raised for want of an
\* authentication value.
C27_Witness ==
    /\ config = ConfigNoAuth
    /\ pc = "idle"
    /\ ret = Raised("envelope")
    /\ content.tag = "FormSubmission"
    /\ Len(log) >= 2
    /\ log[Len(log)].e = "raise_env"
    /\ log[Len(log) - 1].e = "sub"

\* The step is the return of a get_next_* call of kind e ("tx" or "sub").
ReturnsFromNext(e) ==
    /\ pc = "flushed"
    /\ pc' = "idle"
    /\ call = e
    /\ Len(log') = Len(log) + 1
    /\ log'[Len(log')].e = e

\* C24: get_next_tx_id returns with the submission-id, in memory and in the
\* rewritten state file, equal to what the instance held when the call
\* began, and with the transaction-id advanced by 1; get_next_submission_id
\* likewise leaves the transaction-id as it was.
C24_CountersIndependent ==
    /\ [][ReturnsFromNext("tx") =>
              /\ mem'.sub = entry.sub
              /\ mem'.tx = entry.tx + 1
              /\ file'.kind = "counters"
              /\ ParseInt(file'.sub) = entry.sub
              /\ ParseInt(file'.tx) = entry.tx + 1]_vars
    /\ [][ReturnsFromNext("sub") =>
              /\ mem'.tx = entry.tx
              /\ mem'.sub = entry.sub + 1
              /\ file'.kind = "counters"
              /\ ParseInt(file'.tx) = entry.tx
              /\ ParseInt(file'.sub) = entry.sub + 1]_vars

\* C24 witness: get_next_tx_id returned right after get_next_submission_id
\* had taken the submission counter from 9 to 10, and the file holds both.
C24_Witness ==
    /\ JustReturned("next_tx")
    /\ Len(log) >= 2
    /\ log[Len(log) - 1].e = "sub"
    /\ log[Len(log)].e = "tx"
    /\ file = FileCounters(<<"6">>, <<"1", "0">>)

\* C25 (as claimed): whatever the state file held, absent, unparsable, or
\* JSON without the two counters, the constructed State holds both
\* transaction-id and submission-id as integers, so get_next_* does not fail
\* for the shape of the state.
C25_LoadedStateHasCounters ==
    /\ mem.shape = "counters"
    /\ \A i \in 1..Len(log) :
           log[i].e \in {"raise_tx", "raise_sub"} => boot.kind # "other"

\* The run in progress has made its call: it reached the network step.
ReachedNetwork == pc = "idle" /\ calls = 1

\* C28: a CLI run that reaches the network step has advanced the transaction
\* counter by exactly 1; submit-accounts and accounts-image have also
\* advanced the submission counter by exactly 1, allocating the submission
\* id before the transaction id, while get-company-data and
\* get-submission-status leave it alone; the state file holds the advanced
\* counters however the call ended.
C28_CountersPerOperation ==
    ReachedNetwork =>
        /\ mem.tx = boot.tx + 1
        /\ Cardinality(SegEvents("env")) = 1
        /\ env.Class \in {"Accounts", "AccountsImage"} =>
               /\ mem.sub = boot.sub + 1
               /\ Cardinality(SegEvents("sub")) = 1
               /\ MaxOf(SegEvents("sub")) < MaxOf(SegEvents("env"))
        /\ env.Class \in {"CompanyDataRequest", "GetSubmissionStatus"} =>
               /\ mem.sub = boot.sub
               /\ SegEvents("sub") = {}
        /\ env.Class \in {"Accounts", "AccountsImage", "CompanyDataRequest",
                           "GetSubmissionStatus"}
        /\ outcome.kind \in {"returned", "raised"}
        /\ file = Dumps(mem)
        /\ LoadState(file) = mem

\* C28 witness: an accounts-image run on counters 5 and 9 reached the
\* network and the call failed.
C28_Witness ==
    /\ ReachedNetwork
    /\ env.Class = "AccountsImage"
    /\ outcome.kind = "raised"
    /\ file = FileCounters(<<"6">>, <<"1", "0">>)

\* C28 witness of a second run: get-submission-status after an earlier run.
C28_WitnessSecondRun ==
    /\ ReachedNetwork
    /\ env.Class = "GetSubmissionStatus"
    /\ SegStart > 1

\* The get_next_* calls of kind e ("tx" or "sub") among the first n entries
\* of a history, returned or raised.
CallsIn(lg, n, e) ==
    Cardinality({i \in 1..n : lg[i].e \in {e, "raise_" \o e}})

\* The calls of kind e begun on an instance with history lg and call cl in
\* progress.
Begun(lg, cl, e) == CallsIn(lg, Len(lg), e) + (IF cl = e THEN 1 ELSE 0)

\* An instance that loaded b, has history lg, call cl in progress and holds m
\* shows only its own calls: each counter is the loaded value plus the calls
\* begun, and each returned value the loaded value plus the calls up to it.
OwnCallsOnly(b, m, lg, cl) ==
    /\ m.tx = b.tx + Begun(lg, cl, "tx")
    /\ m.sub = b.sub + Begun(lg, cl, "sub")
    /\ \A i \in 1..Len(lg) :
           /\ lg[i].e = "tx" => lg[i].v = b.tx + CallsIn(lg, i, "tx")
           /\ lg[i].e = "sub" => lg[i].v = b.sub + CallsIn(lg, i, "sub")

\* The state file of an instance (position p, history lg, counters m, loaded
\* b) is what the instance's own writes made of it.
OwnFileOnly(f, p, lg, m, b) ==
    /\ (p = "idle" /\ Len(lg) > 0 /\ lg[Len(lg)].e \in {"tx", "sub"}) =>
           f = Dumps(m)
    /\ p = "opened" => f = FileEmpty
    /\ p = "flushed" => f = Dumps(m)
    /\ (Len(lg) = 0 /\ p \in {"idle", "write"}) =>
           (f.kind \in {"absent", "counters"} /\ LoadState(f).tx = b.tx
               /\ LoadState(f).sub = b.sub)

\* C21: two State instances on distinct state-file paths do not interfere
\* under any interleaving: a step of one leaves the other's fields, history
\* and file alone, and each instance's counters, returned values and file
\* follow from its own calls only (k calls leave a counter at initial + k).
C21_DistinctPathsIndependent ==
    /\ [](/\ OwnCallsOnly(boot, mem, log, call)
          /\ OwnCallsOnly(peer.boot, peer.mem, peer.log, peer.call)
          /\ OwnFileOnly(file, pc, log, mem, boot)
          /\ OwnFileOnly(peer.file, peer.pc, peer.log, peer.mem, peer.boot))
    /\ [][peer' # peer => UNCHANGED storeVars]_vars
    /\ [][storeVars' # storeVars => peer' = peer]_vars

\* C21 witness: both instances are inside a write at the same time, each
\* having returned from a call before, the first from counter 5 and the
\* second from counter 41.
C21_Witness ==
    /\ pc = "opened"
    /\ peer.pc = "opened"
    /\ Len(log) = 1
    /\ log[1] = Event("tx", 6, 5)
    /\ Len(peer.log) = 1
    /\ peer.log[1] = Event("tx", 42, 41)

\* C22 (as claimed): with two State instances on one state-file path and
\* every get_next_* call made under one mutex for that path, no two calls
\* return the same transaction id and the transaction id in the file never
\* decreases.
C22_MutexSuffices ==
    /\ [](\A i \in 1..Len(log), j \in 1..Len(peer.log) :
              (log[i].e = "tx" /\ peer.log[j].e = "tx") =>
                  log[i].v # peer.log[j].v)
    /\ [][(file.kind = "counters" /\ file'.kind = "counters") =>
              ParseInt(file'.tx) >= ParseInt(file.tx)]_vars

\* Every thread has finished the calls it made.
AllThreadsIdle == \A t \in ThreadIds : thr.t[t].pc = "idle"

\* How far the counters have advanced since the instance was constructed.
Advance == PerKind(mem.tx - boot.tx, mem.sub - boot.sub)

C23_WitnessSerial ==
    /\ AllThreadsIdle
    /\ thr.done.tx + thr.done.sub = 3
    /\ ~thr.raced.tx
    /\ ~thr.raced.sub

\* The last POST reached the authentication check of do_POST.
ReachedGate ==
    /\ srv.last.via # "none"
    /\ srv.last.req.path = GatewayPath
    /\ srv.last.req.xml

\* The digests of the last POST are not both those of the gateway's settings.
DigestsDiffer ==
    /\ srv.last.req.hasAuth
    /\ \/ srv.last.req.env.SenderID # Md5(srv.presenter_id)
       \/ srv.last.req.env.Value # Md5(srv.authentication)

\* The last POST was answered with error 502 and was given to no handler.
Refused ==
    /\ srv.last.status = 200
    /\ srv.last.body.xml
    /\ srv.last.body.errors
           = <<Entry(TRUE, <<"5", "0", "2">>, TRUE, "Authentication failure")>>
    /\ srv.last.handler = "none"

\* C29: with authentication checking active, a POST whose SenderID or Value
\* is not the md5 of the gateway's presenter id / authentication is answered
\* with status 200 and error 502 "Authentication failure", reaches no handler
\* and leaves the stored submissions as they were; the Client.call that sent
\* it raises AuthenticationFailure.
C29_AuthenticationGate ==
    (ReachedGate /\ ~srv.fail_auth /\ DigestsDiffer) =>
        /\ Refused
        /\ srv.last.after = srv.last.before
        /\ (srv.last.via = "client" /\ calls = 1) =>
               outcome = RaisedExc("AuthenticationFailure", "Authentication failure")

\* C29 witness: the client's SenderID is the gateway's, its Value is not, and
\* the accounts it filed were refused.
C29_Witness ==
    /\ ReachedGate
    /\ ~srv.fail_auth
    /\ srv.last.via = "client"
    /\ calls = 1
    /\ srv.last.req.env.Class = "Accounts"
    /\ srv.last.req.env.SenderID = Md5(srv.presenter_id)
    /\ srv.last.req.env.Value # Md5(srv.authentication)
    /\ outcome.cls = "AuthenticationFailure"
    /\ srv.submissions = <<>>

\* C29 witness: another sender is refused while the gateway holds the
\* submission the client filed before.
C29_WitnessStored ==
    /\ ReachedGate
    /\ ~srv.fail_auth
    /\ DigestsDiffer
    /\ srv.last.via = "other"
    /\ srv.last.req.env.Class = "Accounts"
    /\ DOMAIN srv.last.before = {"S00001"}
    /\ srv.submissions = srv.last.before

\* C30: a gateway started with fail_auth set answers every POST that reaches
\* the authentication check, correct digests or not, with error 502 and
\* routes it to no handler.
C30_FailAuthAlwaysFails ==
    (ReachedGate /\ srv.fail_auth) => Refused

====
